---- MODULE Spec2Model ----
(***************************************************************************)
(* Model of the GRUB xHCI host-controller driver (grub-core/bus/usb/xhci.c)*)
(* as it is compiled: the code inside "#if 0" blocks and behind "//" is    *)
(* not part of the program and is not modelled.                            *)
(*                                                                         *)
(* A register value is the set of the bit positions that are set in it,    *)
(* so that "a | b" is a \cup b and "a & ~b" is a \ b.                      *)
(***************************************************************************)
EXTENDS Integers, Sequences, FiniteSets, TLC

\* ------------------------------------------------------------------ bounds
NumDevs == 2
MaxPorts == 2
MaxSize == 2
SleepTicks == 2

Devs == 1..NumDevs

\* ------------------------------------------------------- program constants
\* USBCMD bits (bit positions)
GRUB_XHCI_OPER_USBCMD_RUNSTOP == 0
GRUB_XHCI_OPER_USBCMD_HCRST == 1
\* USBSTS bits
GRUB_XHCI_USBSTS_HCH == 0
GRUB_XHCI_USBSTS_CNR == 11
\* USBLEGSUP bits
GRUB_XHCI_USBLEGSUP_BIOS_OWNED == 16
GRUB_XHCI_USBLEGSUP_OS_OWNED == 24
\* PORTSC bits
GRUB_XHCI_PORTSC_CCS == 0
GRUB_XHCI_PORTSC_PED == 1
GRUB_XHCI_PORT_RESET == 8
GRUB_XHCI_PORT_LINE_K == 10
GRUB_XHCI_PORT_LINE_J == 11
GRUB_XHCI_PORT_POWER == 12
GRUB_XHCI_PORT_OWNER == 13
\* offset of the first port register set in the operational block (0x400)
\* and the size of one set (0x10)
PORT_REGS_BASE == 1024
PORT_REGS_STRIDE == 16
\* offset of PORTSC in a port register set
PORTSC == 0
\* PCI command register bits set by the attach
GRUB_PCI_COMMAND_MEM_ENABLED == 1
GRUB_PCI_COMMAND_BUS_MASTER == 2
\* PCI class code (class, subclass, prog-if) of an xHCI controller: 0x0c0330
XHCI_CLASS_CODE == 787248
\* class code of an EHCI controller (0x0c0320), a device the driver skips
EHCI_CLASS_CODE == 787232
\* extended capability ID of the USB legacy support capability
XECP_ID_LEGACY == 1
\* extended capability ID of a supported-protocol capability
XECP_ID_PROTOCOL == 2
\* slots field of HCSPARAMS1 on the modelled devices
HwSlots == 32
\* CAPLENGTH of the modelled devices (0x20)
HwCapLength == 32
\* DBOFF and RTSOFF of the modelled devices, reserved low bits set
HwDbOff == 8195
HwRtsOff == 4127

GRUB_USB_ERR_NONE == "GRUB_USB_ERR_NONE"
GRUB_USB_ERR_TIMEOUT == "GRUB_USB_ERR_TIMEOUT"
GRUB_USB_ERR_INTERNAL == "GRUB_USB_ERR_INTERNAL"
GRUB_USB_SPEED_NONE == "GRUB_USB_SPEED_NONE"
GRUB_USB_SPEED_SUPER == "GRUB_USB_SPEED_SUPER"
GRUB_USB_SPEED_HIGH == "GRUB_USB_SPEED_HIGH"
GRUB_USB_ERR_BADDEVICE == "GRUB_USB_ERR_BADDEVICE"
GRUB_USB_ERR_WAIT == "GRUB_USB_ERR_WAIT"
GRUB_ERR_NONE == "GRUB_ERR_NONE"
GRUB_ERR_TIMEOUT == "GRUB_ERR_TIMEOUT"

\* value of a struct field that grub_malloc left uninitialised
UNINIT == -1

\* "off & ~0x3" and "off & ~0x1f" on a non-negative offset
DBOFF_MASK(off) == off - (off % 4)
RTSOFF_MASK(off) == off - (off % 32)

\* HCSPARAMS1 register value holding the given slot and port counts
HCSPARAMS1(slots, ports) == slots + ports * 16777216
XHCI_HCSPARAMS1_SLOTS(params) == params % 256
XHCI_HCSPARAMS1_PORTS(params) == (params \div 16777216) % 256

\* ------------------------------------------------------------------- state
VARIABLES
  pci,        \* [Devs -> device]: config space and MMIO registers of each PCI device
  phase,      \* "loading" (GRUB_MOD_INIT running), "loaded", "unloaded"
  pci_next,   \* the device grub_pci_iterate hands to the hook next
  xhci_list,  \* the controller list, head first; each entry a struct grub_xhci
  attach,     \* [Devs -> record]: what grub_xhci_pci_iter did for the device
  wlog,       \* [Devs -> Seq]: every register write the driver issued to the device
  halt_rec,   \* [Devs -> record]: the last grub_xhci_halt call on the device
  reset_rec,  \* [Devs -> record]: the last grub_xhci_reset call on the device
  preboot,    \* "idle", "fini" (grub_xhci_fini_hw returned), "restored"
  grub_errno, \* last error raised with grub_error
  state,      \* the static int state of grub_xhci_detect_dev
  det_rec,    \* the last grub_xhci_detect_dev call
  det_mem,    \* an earlier grub_xhci_detect_dev call, kept for comparison
  ps_rec,     \* the last grub_xhci_portstatus call
  xfer,       \* the transfer the USB layer has handed to the driver
  xf_rec,     \* the last setup/check/cancel call on a transfer
  it_rec,     \* the last grub_xhci_iterate call
  call,       \* the operation in progress, with its loop cursor and its wait
  ret_rec     \* the last operation that returned

portvars == <<state, det_rec, det_mem, ps_rec>>

xfervars == <<xfer, xf_rec, it_rec>>

termvars == <<call, ret_rec>>

vars == <<pci, phase, pci_next, xhci_list, attach, wlog, halt_rec, reset_rec,
          preboot, grub_errno, state, det_rec, det_mem, ps_rec, xfer, xf_rec,
          it_rec, call, ret_rec>>

\* ---------------------------------------------------------------- hardware
\* The devices grub_pci_iterate can find.  A device that is not an xHCI
\* controller, or whose BAR is unusable, is never touched, so its register
\* contents are fixed to one value.
OkDevice(leg, sup, cmd, ppc, ports) ==
  [ class_code |-> XHCI_CLASS_CODE, bar_type |-> "32", base_h |-> 0, base |-> 1,
    PCI_COMMAND |-> {},
    caplength |-> HwCapLength, dboff |-> HwDbOff, rtsoff |-> HwRtsOff,
    hcsparams1 |-> HCSPARAMS1(HwSlots, ports),
    ppc |-> ppc,
    xecp |-> IF leg = "none" THEN 0 ELSE 64,
    xecp_id |-> IF leg = "legacy" THEN XECP_ID_LEGACY ELSE XECP_ID_PROTOCOL,
    USBLEGSUP |-> IF leg = "legacy" THEN sup ELSE {},
    USBLEGCTLSTS |-> IF leg = "legacy" THEN {0} ELSE {},
    USBCMD |-> cmd,
    USBSTS |-> IF GRUB_XHCI_OPER_USBCMD_RUNSTOP \in cmd
               THEN {} ELSE {GRUB_XHCI_USBSTS_HCH},
    PORTSC |-> [p \in 1..ports |-> {}] ]

LegSupValues ==
  SUBSET {GRUB_XHCI_USBLEGSUP_BIOS_OWNED, GRUB_XHCI_USBLEGSUP_OS_OWNED}

OkDevices ==
  { OkDevice("legacy", sup, cmd, ppc, MaxPorts) :
      sup \in LegSupValues, cmd \in SUBSET {GRUB_XHCI_OPER_USBCMD_RUNSTOP},
      ppc \in BOOLEAN }
  \cup
  { OkDevice(leg, {}, cmd, ppc, MaxPorts) :
      leg \in {"none", "other"}, cmd \in SUBSET {GRUB_XHCI_OPER_USBCMD_RUNSTOP},
      ppc \in BOOLEAN }

BaseDevice == OkDevice("none", {}, {}, FALSE, MaxPorts)

HwDevices ==
  OkDevices \cup
  { [BaseDevice EXCEPT !.class_code = EHCI_CLASS_CODE],
    [BaseDevice EXCEPT !.bar_type = "64", !.base_h = 1],
    [BaseDevice EXCEPT !.base = 0] }

\* the device has a USB legacy support capability in its extended capability list
HasLegacy(h) == h.xecp # 0 /\ h.xecp_id = XECP_ID_LEGACY

\* ----------------------------------------------------------- the driver
\* one register write, as recorded in wlog; port is 0 except for a port register
WriteRec(reg, port, val) == [reg |-> reg, port |-> port, val |-> val]

\* grub_xhci_halt as it would be if it cleared run/stop without testing the
\* halted-status bit first
grub_xhci_halt_unconditional(h) ==
  LET cmd == h.USBCMD \ {GRUB_XHCI_OPER_USBCMD_RUNSTOP}
  IN [ret |-> GRUB_USB_ERR_NONE, hw |-> [h EXCEPT !.USBCMD = cmd],
      writes |-> <<WriteRec("USBCMD", 0, cmd)>>, saw_hch |-> FALSE]

\* grub_xhci_halt: the body is disabled, the function returns success
\* without reading or writing a register.
grub_xhci_halt(h) ==
  [ret |-> GRUB_USB_ERR_NONE, hw |-> h, writes |-> <<>>, saw_hch |-> FALSE]

\* grub_xhci_reset: the body is disabled as well.
grub_xhci_reset(h) ==
  [ret |-> GRUB_USB_ERR_NONE, hw |-> h, writes |-> <<>>, saw_clear |-> FALSE]

\* the instance grub_xhci_init fills in
XhciInstance(h, d) ==
  [ cap_regs |-> d,
    oper_regs |-> h.caplength,
    db_regs |-> DBOFF_MASK(h.dboff),
    run_regs |-> RTSOFF_MASK(h.rtsoff),
    max_device_slots |-> UNINIT,
    max_ports |-> UNINIT ]

\* grub_xhci_init as it would be if it enabled the controller (set run/stop)
\* and did nothing about ownership
grub_xhci_init_enable_only(h, d) ==
  LET cmd == h.USBCMD \cup {GRUB_XHCI_OPER_USBCMD_RUNSTOP}
  IN [ err |-> 0, xhci |-> XhciInstance(h, d),
       hw |-> [h EXCEPT !.USBCMD = cmd],
       writes |-> <<WriteRec("USBCMD", 0, cmd)>>,
       steps |-> <<"run">> ]

\* grub_xhci_init as it would be if it took ownership and disabled SMIs at
\* the extended-capability offset without looking for the capability
grub_xhci_init_blind_handover(h, d) ==
  [ err |-> 0, xhci |-> XhciInstance(h, d),
    hw |-> [h EXCEPT !.USBLEGSUP = {GRUB_XHCI_USBLEGSUP_OS_OWNED},
                     !.USBLEGCTLSTS = {}],
    writes |-> << WriteRec("USBLEGSUP", 0, {GRUB_XHCI_USBLEGSUP_OS_OWNED}),
                  WriteRec("USBLEGCTLSTS", 0, {}) >>,
    steps |-> <<>> ]

\* grub_xhci_init: locates the four register blocks, dumps the capability
\* and operational registers (reads only) and returns 0.  The instance came
\* from grub_malloc, so every other field is uninitialised.
grub_xhci_init(h, d) ==
  [ err |-> 0,
    xhci |-> XhciInstance(h, d),
    hw |-> h,
    writes |-> <<>>,
    steps |-> <<>> ]

\* attach[d]: done: grub_xhci_pci_iter returned; skipped: why the device was
\* not attached; linked: the instance was put on xhci_list; writes: the
\* register writes of the whole call; init_writes and steps: the writes and
\* the lifecycle steps of grub_xhci_init; legsup0: USBLEGSUP on entry; ret:
\* the return value, "0", "err" (the value of grub_xhci_init) or an error name.
NoAttach ==
  [done |-> FALSE, ret |-> "0", skipped |-> "", linked |-> FALSE,
   init_err |-> 0, writes |-> <<>>, init_writes |-> <<>>, steps |-> <<>>,
   legsup0 |-> {}]

NoCall == [called |-> FALSE, ret |-> GRUB_USB_ERR_NONE, writes |-> <<>>,
           usbsts |-> {}, usbcmd |-> {}, observed |-> FALSE]

\* no grub_xhci_detect_dev call yet
NoDetect ==
  [called |-> FALSE, in_range |-> FALSE, portsc |-> {}, after |-> {},
   speed |-> GRUB_USB_SPEED_NONE, changed |-> "unset", writes |-> <<>>,
   others_same |-> TRUE, accessed |-> FALSE, port_ok |-> FALSE]

\* no grub_xhci_portstatus call yet
NoPortStatus ==
  [called |-> FALSE, in_range |-> FALSE, enable |-> 0, portsc |-> {},
   after |-> {}, ret |-> GRUB_USB_ERR_NONE, writes |-> <<>>, slept |-> 0]

\* no transfer in the driver's hands: entries, doorbells, active and moved
\* count the ring entries written for it, the doorbell writes made for it,
\* the entries hardware still has to process and the bytes hardware moved
NoTransfer ==
  [started |-> FALSE, dev |-> 0, size |-> 0, entries |-> 0, doorbells |-> 0,
   active |-> 0, moved |-> 0]

\* no setup/check/cancel call yet; actual is -1 where *actual is not assigned
NoTransferCall ==
  [op |-> "none", ret |-> GRUB_USB_ERR_NONE, halted |-> FALSE, size |-> 0,
   actual |-> -1, completed |-> FALSE, moved |-> 0, entries |-> 0,
   doorbells |-> 0, entry_reads |-> 0, steps |-> <<>>]

\* no operation in progress; cur is a position in xhci_list (past the end:
\* NULL), sleep_left the clock ticks grub_millisleep still has to wait
Idle == [op |-> "idle", cur |-> 0, sleep_left |-> 0]

\* no operation has returned yet
NoReturn == [op |-> "none", iters |-> 0]

\* no grub_xhci_iterate call yet
NoIterate == [called |-> FALSE, stop |-> 0, calls |-> <<>>, ret |-> 0]

\* the driver's own state when the module is loaded
InitDriver ==
  /\ phase = "loading"
  /\ pci_next = 1
  /\ xhci_list = <<>>
  /\ attach = [d \in Devs |-> NoAttach]
  /\ wlog = [d \in Devs |-> <<>>]
  /\ halt_rec = [d \in Devs |-> NoCall]
  /\ reset_rec = [d \in Devs |-> NoCall]
  /\ preboot = "idle"
  /\ grub_errno = GRUB_ERR_NONE
  /\ state = 0
  /\ det_rec = NoDetect
  /\ det_mem = NoDetect
  /\ ps_rec = NoPortStatus
  /\ xfer = NoTransfer
  /\ xf_rec = NoTransferCall
  /\ it_rec = NoIterate
  /\ call = Idle
  /\ ret_rec = NoReturn

Init ==
  /\ pci \in [Devs -> HwDevices]
  /\ InitDriver

\* an early return as it would be if the "return 0" were missing and the
\* function went on to put an instance for the device on the list
PciSkip_registers(d, why) ==
  /\ attach' = [attach EXCEPT ![d] = [NoAttach EXCEPT !.done = TRUE, !.skipped = why]]
  /\ pci_next' = d + 1
  /\ xhci_list' = <<XhciInstance(pci[d], d)>> \o xhci_list
  /\ UNCHANGED <<pci, wlog>>

\* grub_xhci_pci_iter on the device grub_pci_iterate has reached; a non-zero
\* return value stops the iteration.
PciSkip(d, why) ==
  /\ attach' = [attach EXCEPT ![d] = [NoAttach EXCEPT !.done = TRUE, !.skipped = why]]
  /\ pci_next' = d + 1
  /\ UNCHANGED <<pci, xhci_list, wlog>>

grub_xhci_pci_iter(d, alloc_ok) ==
  /\ phase = "loading"
  /\ pci_next = d
  /\ LET h == pci[d]
         cmdval == {GRUB_PCI_COMMAND_MEM_ENABLED, GRUB_PCI_COMMAND_BUS_MASTER}
                     \cup h.PCI_COMMAND
         w == WriteRec("PCI_COMMAND", 0, cmdval)
         h1 == [h EXCEPT !.PCI_COMMAND = cmdval]
         r == grub_xhci_init(h1, d)
     IN
     IF h.class_code # XHCI_CLASS_CODE THEN PciSkip(d, "class")
     ELSE IF h.bar_type # "32" /\ h.base_h # 0 THEN PciSkip(d, "above4G")
     ELSE IF h.base = 0 THEN PciSkip(d, "unmapped")
     ELSE IF ~alloc_ok THEN
       /\ pci' = [pci EXCEPT ![d] = h1]
       /\ wlog' = [wlog EXCEPT ![d] = Append(@, w)]
       /\ attach' = [attach EXCEPT ![d] =
            [NoAttach EXCEPT !.done = TRUE, !.ret = GRUB_USB_ERR_INTERNAL,
                             !.skipped = "nomem", !.writes = <<w>>,
                             !.legsup0 = h.USBLEGSUP]]
       /\ pci_next' = NumDevs + 1
       /\ UNCHANGED xhci_list
     ELSE IF r.err # 0 THEN
       /\ pci' = [pci EXCEPT ![d] = r.hw]
       /\ wlog' = [wlog EXCEPT ![d] = Append(@, w) \o r.writes]
       /\ attach' = [attach EXCEPT ![d] =
            [NoAttach EXCEPT !.done = TRUE, !.ret = "err", !.skipped = "init",
                             !.init_err = r.err, !.writes = <<w>> \o r.writes,
                             !.init_writes = r.writes, !.steps = r.steps,
                             !.legsup0 = h.USBLEGSUP]]
       /\ pci_next' = NumDevs + 1
       /\ UNCHANGED xhci_list
     ELSE
       /\ pci' = [pci EXCEPT ![d] = r.hw]
       /\ wlog' = [wlog EXCEPT ![d] = Append(@, w) \o r.writes]
       /\ attach' = [attach EXCEPT ![d] =
            [NoAttach EXCEPT !.done = TRUE, !.linked = TRUE,
                             !.writes = <<w>> \o r.writes,
                             !.init_writes = r.writes, !.steps = r.steps,
                             !.legsup0 = h.USBLEGSUP]]
       /\ xhci_list' = <<r.xhci>> \o xhci_list
       /\ pci_next' = d + 1
  /\ UNCHANGED <<phase, halt_rec, reset_rec, preboot, grub_errno>>
  /\ UNCHANGED portvars
  /\ UNCHANGED xfervars
  /\ UNCHANGED termvars

\* GRUB_MOD_INIT after grub_pci_iterate has returned: registers the
\* controller driver and the preboot hooks.
GRUB_MOD_INIT ==
  /\ phase = "loading"
  /\ pci_next > NumDevs
  /\ phase' = "loaded"
  /\ UNCHANGED <<pci, pci_next, xhci_list, attach, wlog, halt_rec, reset_rec,
                 preboot, grub_errno>>
  /\ UNCHANGED portvars
  /\ UNCHANGED xfervars
  /\ UNCHANGED termvars

\* the devices of the controllers in the list
Registered == { xhci_list[i].cap_regs : i \in 1..Len(xhci_list) }

\* grub_xhci_restore_hw: halt, then reset, every controller of the list; a
\* failure raises grub_error and the loop goes on.
grub_xhci_restore_hw ==
  /\ phase = "loaded"
  /\ LET hr == [d \in Devs |-> grub_xhci_halt(pci[d])]
         rr == [d \in Devs |-> grub_xhci_reset(hr[d].hw)]
     IN
     /\ pci' = [d \in Devs |-> IF d \in Registered THEN rr[d].hw ELSE pci[d]]
     /\ wlog' = [d \in Devs |-> IF d \in Registered
                                 THEN wlog[d] \o hr[d].writes \o rr[d].writes
                                 ELSE wlog[d]]
     /\ halt_rec' = [d \in Devs |-> IF d \in Registered
           THEN [called |-> TRUE, ret |-> hr[d].ret, writes |-> hr[d].writes,
                 usbsts |-> pci[d].USBSTS, usbcmd |-> hr[d].hw.USBCMD,
                 observed |-> hr[d].saw_hch]
           ELSE halt_rec[d]]
     /\ reset_rec' = [d \in Devs |-> IF d \in Registered
           THEN [called |-> TRUE, ret |-> rr[d].ret, writes |-> rr[d].writes,
                 usbsts |-> rr[d].hw.USBSTS, usbcmd |-> rr[d].hw.USBCMD,
                 observed |-> rr[d].saw_clear]
           ELSE reset_rec[d]]
     /\ grub_errno' =
          IF \E d \in Registered : hr[d].ret # GRUB_USB_ERR_NONE
                                    \/ rr[d].ret # GRUB_USB_ERR_NONE
          THEN GRUB_ERR_TIMEOUT ELSE grub_errno
  /\ preboot' = "restored"
  /\ UNCHANGED <<phase, pci_next, xhci_list, attach>>
  /\ UNCHANGED portvars
  /\ UNCHANGED xfervars
  /\ UNCHANGED termvars

\* grub_xhci_fini_hw: the loop over the controllers has an empty body.
grub_xhci_fini_hw ==
  /\ phase = "loaded"
  /\ preboot' = "fini"
  /\ UNCHANGED <<pci, phase, pci_next, xhci_list, attach, wlog, halt_rec,
                 reset_rec, grub_errno>>
  /\ UNCHANGED portvars
  /\ UNCHANGED xfervars
  /\ UNCHANGED termvars

\* grub_xhci_hubports on the i-th controller of the list
grub_xhci_hubports(i) ==
  /\ phase = "loaded"
  /\ i \in 1..Len(xhci_list)
  /\ LET hcsparams1 == pci[xhci_list[i].cap_regs].hcsparams1
     IN xhci_list' = [xhci_list EXCEPT
          ![i].max_device_slots = XHCI_HCSPARAMS1_SLOTS(hcsparams1),
          ![i].max_ports = XHCI_HCSPARAMS1_PORTS(hcsparams1)]
  /\ UNCHANGED <<pci, phase, pci_next, attach, wlog, halt_rec, reset_rec,
                 preboot, grub_errno>>
  /\ UNCHANGED portvars
  /\ UNCHANGED xfervars
  /\ UNCHANGED termvars

\* GRUB_MOD_FINI: grub_xhci_fini_hw (0), then the driver is unregistered.
GRUB_MOD_FINI ==
  /\ phase = "loaded"
  /\ phase' = "unloaded"
  /\ preboot' = "fini"
  /\ UNCHANGED <<pci, pci_next, xhci_list, attach, wlog, halt_rec, reset_rec,
                 grub_errno>>
  /\ UNCHANGED portvars
  /\ UNCHANGED xfervars
  /\ UNCHANGED termvars

\* ------------------------------------------------------------------ ports
\* a register that reads as all ones
ALL_ONES == 0..31

\* the values a port status register is given: not connected; connected;
\* connected with line state K; connected and owned by a companion
\* controller; connected and in reset; connected and enabled; connected and
\* enabled with the owner bit and line state K
PortValues ==
  { {},
    {GRUB_XHCI_PORTSC_CCS},
    {GRUB_XHCI_PORTSC_CCS, GRUB_XHCI_PORT_LINE_K},
    {GRUB_XHCI_PORTSC_CCS, GRUB_XHCI_PORT_OWNER},
    {GRUB_XHCI_PORTSC_CCS, GRUB_XHCI_PORT_RESET},
    {GRUB_XHCI_PORTSC_CCS, GRUB_XHCI_PORTSC_PED},
    {GRUB_XHCI_PORTSC_CCS, GRUB_XHCI_PORTSC_PED, GRUB_XHCI_PORT_OWNER,
     GRUB_XHCI_PORT_LINE_K} }

\* the controllers of the port specification: at most one port of the whole
\* system has a device on it
PortDevice(p, v) ==
  [BaseDevice EXCEPT !.PORTSC = [q \in 1..MaxPorts |-> IF q = p THEN v ELSE {}]]

PortSystems ==
  { [d \in Devs |-> IF d = e THEN PortDevice(p, v) ELSE BaseDevice] :
      e \in Devs, p \in 1..MaxPorts, v \in PortValues }

InitPorts ==
  /\ pci \in PortSystems
  /\ InitDriver

\* the number of ports the hardware has
HwPorts(h) == XHCI_HCSPARAMS1_PORTS(h.hcsparams1)

\* the values an uninitialised max_ports can have, as far as "port >
\* max_ports" is concerned: below every port number, or above all of them
UninitMaxPorts == {0, 255}

\* "0x400 + (0x10 * (port - 1)) + type" added to the operational base.  For
\* port 0 the product wraps to 0xfffffff0; this is the offset that results
\* with 32-bit pointers.
PortRegOffset(port, type) ==
  PORT_REGS_BASE + PORT_REGS_STRIDE * (port - 1) + type

\* 32-bit read of the operational block at an offset: a port status register
\* of an existing port, or a register that reads as zero
OperRead32(h, off) ==
  IF \E q \in 1..HwPorts(h) : off = PortRegOffset(q, PORTSC)
  THEN h.PORTSC[CHOOSE q \in 1..HwPorts(h) : off = PortRegOffset(q, PORTSC)]
  ELSE {}

\* xhci_read_portrs: max_ports is the value of xhci->max_ports; off is -1
\* when the device is not accessed
xhci_read_portrs(h, max_ports, port, type) ==
  IF port > max_ports
  THEN [val |-> ALL_ONES, off |-> -1]
  ELSE [val |-> OperRead32(h, PortRegOffset(port, type)),
        off |-> PortRegOffset(port, type)]

\* the switch as it would be if case 0 moved on to state 1, so that the
\* three states follow one another
DetectSwitch_cycle(st) ==
  CASE st = 0 -> [state |-> 1, changed |-> "1", speed |-> GRUB_USB_SPEED_SUPER]
    [] st = 1 -> [state |-> 2, changed |-> "0", speed |-> GRUB_USB_SPEED_NONE]
    [] st = 2 -> [state |-> 0, changed |-> "1", speed |-> GRUB_USB_SPEED_SUPER]
    [] OTHER  -> [state |-> st, changed |-> "unset", speed |-> GRUB_USB_SPEED_NONE]

\* the switch on the static state of grub_xhci_detect_dev; changed is
\* "unset" where *changed is not assigned
DetectSwitch(st) ==
  CASE st = 0 -> [state |-> 0, changed |-> "1", speed |-> GRUB_USB_SPEED_SUPER]
    [] st = 1 -> [state |-> 2, changed |-> "0", speed |-> GRUB_USB_SPEED_NONE]
    [] st = 2 -> [state |-> 0, changed |-> "1", speed |-> GRUB_USB_SPEED_SUPER]
    [] OTHER  -> [state |-> st, changed |-> "unset", speed |-> GRUB_USB_SPEED_NONE]

\* the answer as it would be if a port owned by a companion controller were
\* reported as no device before anything else is looked at
DetectResult_owner_first(st, status) ==
  IF GRUB_XHCI_PORT_OWNER \in status
  THEN [state |-> st, changed |-> "0", speed |-> GRUB_USB_SPEED_NONE]
  ELSE DetectSwitch(st)

\* the answer of grub_xhci_detect_dev: the value read from the port status
\* register (status, is_connected) is computed and not used
DetectResult(st, status) == DetectSwitch(st)

\* grub_xhci_detect_dev on the i-th controller of the list: reads the port
\* status register (twice, for the log and for is_connected, which is not
\* used), sleeps, and answers from the static state alone.  m is the value
\* of max_ports when grub_xhci_hubports has not set it yet; keep says
\* whether the previous call stays the remembered one.
grub_xhci_detect_dev(i, port, m, keep) ==
  /\ phase = "loaded"
  /\ i \in 1..Len(xhci_list)
  /\ LET xhci == xhci_list[i]
         h == pci[xhci.cap_regs]
         mp == IF xhci.max_ports = UNINIT THEN m ELSE xhci.max_ports
         rd == xhci_read_portrs(h, mp, port, PORTSC)
         sw == DetectResult(state, rd.val)
     IN
     /\ (xhci.max_ports # UNINIT => m = 0)
     /\ state' = sw.state
     /\ det_rec' = [called |-> TRUE,
                    in_range |-> port \in 1..HwPorts(h) /\ rd.off # -1,
                    portsc |-> rd.val,
                    after |-> IF port \in 1..HwPorts(h) THEN h.PORTSC[port] ELSE {},
                    speed |-> sw.speed, changed |-> sw.changed,
                    writes |-> <<>>, others_same |-> TRUE,
                    accessed |-> rd.off # -1, port_ok |-> port \in 1..mp]
     /\ det_mem' = IF keep /\ det_mem.called THEN det_mem ELSE det_rec
  /\ UNCHANGED <<pci, phase, pci_next, xhci_list, attach, wlog, halt_rec,
                 reset_rec, preboot, grub_errno, ps_rec>>
  /\ UNCHANGED xfervars
  /\ UNCHANGED termvars

\* grub_xhci_portstatus on the i-th controller of the list: returns success
\* at once.
grub_xhci_portstatus(i, port, enable) ==
  /\ phase = "loaded"
  /\ i \in 1..Len(xhci_list)
  /\ LET h == pci[xhci_list[i].cap_regs]
         v == IF port \in 1..HwPorts(h) THEN h.PORTSC[port] ELSE {}
     IN ps_rec' = [called |-> TRUE, in_range |-> port \in 1..HwPorts(h),
                   enable |-> enable, portsc |-> v, after |-> v,
                   ret |-> GRUB_USB_ERR_NONE, writes |-> <<>>, slept |-> 0]
  /\ UNCHANGED <<pci, phase, pci_next, xhci_list, attach, wlog, halt_rec,
                 reset_rec, preboot, grub_errno, state, det_rec, det_mem>>
  /\ UNCHANGED xfervars
  /\ UNCHANGED termvars

\* ------------------------------------------------------------- transfers
\* controllers that differ in being halted or running only
XferDevices ==
  { OkDevice("none", {}, cmd, FALSE, MaxPorts) :
      cmd \in SUBSET {GRUB_XHCI_OPER_USBCMD_RUNSTOP} }

InitXfer ==
  /\ pci \in [Devs -> XferDevices]
  /\ InitDriver

\* hardware has finished a transfer when it was given the transfer's
\* entries, was told of them, and has none of them left to process
HwCompleted(tr) == tr.entries > 0 /\ tr.doorbells > 0 /\ tr.active = 0

\* what a setup/check/cancel call on the i-th controller saw
TransferCall(op, i, tr) ==
  [NoTransferCall EXCEPT
     !.op = op,
     !.halted = GRUB_XHCI_USBSTS_HCH \in pci[xhci_list[i].cap_regs].USBSTS,
     !.size = tr.size, !.completed = HwCompleted(tr), !.moved = tr.moved]

\* grub_xhci_setup_transfer of a transfer of the given size on the i-th
\* controller: "pretend we managed to start sending data" - no entry is
\* written, no doorbell is rung, controller_data is not set.
grub_xhci_setup_transfer(i, size) ==
  /\ phase = "loaded"
  /\ i \in 1..Len(xhci_list)
  /\ ~xfer.started
  /\ LET tr == [NoTransfer EXCEPT !.started = TRUE, !.dev = i, !.size = size]
     IN
     /\ xfer' = tr
     /\ xf_rec' = TransferCall("setup", i, tr)
  /\ UNCHANGED <<pci, phase, pci_next, xhci_list, attach, wlog, halt_rec,
                 reset_rec, preboot, grub_errno, it_rec>>
  /\ UNCHANGED portvars
  /\ UNCHANGED termvars

\* grub_xhci_check_transfer on the transfer in flight: returns
\* GRUB_USB_ERR_NONE at once, without reading the status register or an
\* entry and without assigning *actual; the USB layer then takes the
\* transfer as finished.
grub_xhci_check_transfer(i) ==
  /\ phase = "loaded"
  /\ i \in 1..Len(xhci_list)
  /\ xfer.started /\ xfer.dev = i
  /\ xf_rec' = TransferCall("check", i, xfer)
  /\ xfer' = NoTransfer
  /\ UNCHANGED <<pci, phase, pci_next, xhci_list, attach, wlog, halt_rec,
                 reset_rec, preboot, grub_errno, it_rec>>
  /\ UNCHANGED portvars
  /\ UNCHANGED termvars

\* grub_xhci_cancel_transfer on the transfer in flight: returns
\* GRUB_USB_ERR_NONE at once.
grub_xhci_cancel_transfer(i) ==
  /\ phase = "loaded"
  /\ i \in 1..Len(xhci_list)
  /\ xfer.started /\ xfer.dev = i
  /\ xf_rec' = TransferCall("cancel", i, xfer)
  /\ xfer' = NoTransfer
  /\ UNCHANGED <<pci, phase, pci_next, xhci_list, attach, wlog, halt_rec,
                 reset_rec, preboot, grub_errno, it_rec>>
  /\ UNCHANGED portvars
  /\ UNCHANGED termvars

\* ------------------------------------------------------------- iteration
\* the loop of grub_xhci_iterate from the j-th controller of the list on:
\* the hook is called on each controller; the hook's stop-th call returns
\* nonzero (none does when stop is 0), which ends the loop with 1
RECURSIVE IterateFrom_ignores_hook(_, _, _, _)
IterateFrom_ignores_hook(list, j, stop, calls) ==
  IF j > Len(list) THEN [ret |-> 0, calls |-> calls]
  ELSE IterateFrom_ignores_hook(list, j + 1, stop, Append(calls, list[j].cap_regs))

RECURSIVE IterateFrom(_, _, _, _)
IterateFrom(list, j, stop, calls) ==
  IF j > Len(list) THEN [ret |-> 0, calls |-> calls]
  ELSE IF j = stop THEN [ret |-> 1, calls |-> Append(calls, list[j].cap_regs)]
  ELSE IterateFrom(list, j + 1, stop, Append(calls, list[j].cap_regs))

\* grub_xhci_iterate with a hook whose stop-th call returns nonzero
grub_xhci_iterate(stop) ==
  /\ phase = "loaded"
  /\ LET r == IterateFrom(xhci_list, 1, stop, <<>>)
     IN it_rec' = [called |-> TRUE, stop |-> stop, calls |-> r.calls, ret |-> r.ret]
  /\ UNCHANGED <<pci, phase, pci_next, xhci_list, attach, wlog, halt_rec,
                 reset_rec, preboot, grub_errno, xfer, xf_rec>>
  /\ UNCHANGED portvars
  /\ UNCHANGED termvars

\* ------------------------------------------------- operations step by step
\* the operations with a loop over the controller list, and the others
LoopOps == {"grub_xhci_fini_hw", "grub_xhci_restore_hw"}

StraightOps ==
  {"grub_xhci_detect_dev", "grub_xhci_portstatus", "grub_xhci_setup_transfer",
   "grub_xhci_check_transfer", "grub_xhci_cancel_transfer"}

\* the loop step as it would be if the cursor were not advanced
NextController_stays(list, cur) == cur

\* xhci = xhci->next
NextController(list, cur) == cur + 1

\* an operation is entered: the loops start at the head of the list,
\* grub_xhci_detect_dev starts its grub_millisleep (1000)
OpCall(o) ==
  /\ phase = "loaded"
  /\ call.op = "idle"
  /\ call' = [op |-> o,
              cur |-> IF o \in LoopOps THEN 1 ELSE 0,
              sleep_left |-> IF o = "grub_xhci_detect_dev" THEN SleepTicks ELSE 0]
  /\ UNCHANGED <<pci, phase, pci_next, xhci_list, attach, wlog, halt_rec,
                 reset_rec, preboot, grub_errno, ret_rec>>
  /\ UNCHANGED portvars
  /\ UNCHANGED xfervars

\* one pass of for (xhci = xhci_list; xhci; xhci = xhci->next)
LoopStep ==
  /\ call.op \in LoopOps
  /\ call.cur \in 1..Len(xhci_list)
  /\ call' = [call EXCEPT !.cur = NextController(xhci_list, call.cur)]
  /\ UNCHANGED <<pci, phase, pci_next, xhci_list, attach, wlog, halt_rec,
                 reset_rec, preboot, grub_errno, ret_rec>>
  /\ UNCHANGED portvars
  /\ UNCHANGED xfervars

\* the clock advances while grub_millisleep waits
Tick ==
  /\ call.sleep_left > 0
  /\ call' = [call EXCEPT !.sleep_left = @ - 1]
  /\ UNCHANGED <<pci, phase, pci_next, xhci_list, attach, wlog, halt_rec,
                 reset_rec, preboot, grub_errno, ret_rec>>
  /\ UNCHANGED portvars
  /\ UNCHANGED xfervars

\* the operation returns: its loop has reached NULL, its wait is over
OpReturn ==
  /\ call.op # "idle"
  /\ call.op \in LoopOps => call.cur > Len(xhci_list)
  /\ call.sleep_left = 0
  /\ ret_rec' = [op |-> call.op,
                 iters |-> IF call.op \in LoopOps THEN call.cur - 1 ELSE 0]
  /\ call' = Idle
  /\ UNCHANGED <<pci, phase, pci_next, xhci_list, attach, wlog, halt_rec,
                 reset_rec, preboot, grub_errno>>
  /\ UNCHANGED portvars
  /\ UNCHANGED xfervars

Next ==
  \/ \E d \in Devs, alloc_ok \in BOOLEAN : grub_xhci_pci_iter(d, alloc_ok)
  \/ GRUB_MOD_INIT
  \/ grub_xhci_restore_hw
  \/ grub_xhci_fini_hw
  \/ \E i \in 1..NumDevs : grub_xhci_hubports(i)
  \/ GRUB_MOD_FINI

Spec == Init /\ [][Next]_vars

\* the port operations, on controllers that differ in their ports only
NextPorts ==
  \/ \E d \in Devs, alloc_ok \in BOOLEAN : grub_xhci_pci_iter(d, alloc_ok)
  \/ GRUB_MOD_INIT
  \/ \E i \in 1..NumDevs : grub_xhci_hubports(i)
  \/ \E i \in 1..NumDevs, port \in 0..(MaxPorts + 1), m \in UninitMaxPorts,
        keep \in BOOLEAN : grub_xhci_detect_dev(i, port, m, keep)
  \/ \E i \in 1..NumDevs, port \in 0..(MaxPorts + 1), enable \in {0, 1} :
        grub_xhci_portstatus(i, port, enable)

PortSpec == InitPorts /\ [][NextPorts]_vars

\* the transfer operations, on controllers that are halted or running
NextXfer ==
  \/ \E d \in Devs, alloc_ok \in BOOLEAN : grub_xhci_pci_iter(d, alloc_ok)
  \/ GRUB_MOD_INIT
  \/ \E i \in 1..NumDevs, size \in 0..MaxSize : grub_xhci_setup_transfer(i, size)
  \/ \E i \in 1..NumDevs : grub_xhci_check_transfer(i)
  \/ \E i \in 1..NumDevs : grub_xhci_cancel_transfer(i)
  \/ \E stop \in 0..NumDevs : grub_xhci_iterate(stop)

XferSpec == InitXfer /\ [][NextXfer]_vars

\* the control flow of the operations, one step at a time; the thread keeps
\* running and the clock keeps advancing
NextTerm ==
  \/ \E d \in Devs, alloc_ok \in BOOLEAN : grub_xhci_pci_iter(d, alloc_ok)
  \/ GRUB_MOD_INIT
  \/ \E o \in LoopOps \cup StraightOps : OpCall(o)
  \/ LoopStep
  \/ Tick
  \/ OpReturn

TermSpec ==
  /\ InitXfer
  /\ [][NextTerm]_vars
  /\ WF_vars(LoopStep) /\ WF_vars(Tick) /\ WF_vars(OpReturn)

\* ------------------------------------------------------------------ claims
BIOS_OWNED == GRUB_XHCI_USBLEGSUP_BIOS_OWNED
OS_OWNED == GRUB_XHCI_USBLEGSUP_OS_OWNED

\* the device went through grub_xhci_init (it was not skipped before it)
Inited(d) == attach[d].done /\ attach[d].skipped \in {"", "init"}

\* the registers of the operational block
IsOperReg(w) == w.reg \in {"USBCMD", "USBSTS", "DNCTRL", "CRCR", "DCBAAP",
                           "CONFIG", "PORTSC"}

\* C1: after ownership handover on a controller that has a legacy-support
\* capability, whatever the BIOS-owned and OS-owned bits were, the OS-owned
\* bit is set and the BIOS-owned bit is clear.
C1_HandoverLeavesOsOwned ==
  \A d \in Devs :
    (Inited(d) /\ HasLegacy(pci[d])) =>
      /\ OS_OWNED \in pci[d].USBLEGSUP
      /\ BIOS_OWNED \notin pci[d].USBLEGSUP

\* C2: in an attach, every write to an operational register comes after the
\* end of ownership handover: on a controller with a legacy-support
\* capability, after the write that disables the SMI bits.
C2_NoOperWriteBeforeHandover ==
  \A d \in Devs :
    \A i \in 1..Len(attach[d].writes) :
      (IsOperReg(attach[d].writes[i]) /\ HasLegacy(pci[d])) =>
        \E j \in 1..(i - 1) : attach[d].writes[j].reg = "USBLEGCTLSTS"

\* an attach of a firmware-owned controller ran to its end and issued writes
C2_Witness ==
  \E d \in Devs :
    /\ attach[d].linked
    /\ HasLegacy(pci[d])
    /\ BIOS_OWNED \in attach[d].legsup0
    /\ Len(attach[d].writes) > 0

\* C3: a controller is on the list only if its attach performed Halt, Reset,
\* Configure and Run in that order and its run/stop bit is set.
C3_RegisteredOnlyRunning ==
  \A d \in Devs :
    attach[d].linked =>
      /\ attach[d].steps = <<"halt", "reset", "configure", "run">>
      /\ GRUB_XHCI_OPER_USBCMD_RUNSTOP \in pci[d].USBCMD

\* C4: Halt called on a controller that is not halted clears the run/stop
\* bit, and returns success only if it observed the halted-status bit set.
C4_HaltClearsRunStop ==
  \A d \in Devs :
    (halt_rec[d].called /\ GRUB_XHCI_USBSTS_HCH \notin halt_rec[d].usbsts) =>
      /\ GRUB_XHCI_OPER_USBCMD_RUNSTOP \notin halt_rec[d].usbcmd
      /\ (halt_rec[d].ret = GRUB_USB_ERR_NONE => halt_rec[d].observed)

\* C5: Halt called on a controller whose halted-status bit is set returns
\* success and writes no register.
C5_HaltOnHaltedIsNoop ==
  \A d \in Devs :
    (halt_rec[d].called /\ GRUB_XHCI_USBSTS_HCH \in halt_rec[d].usbsts) =>
      /\ halt_rec[d].ret = GRUB_USB_ERR_NONE
      /\ halt_rec[d].writes = <<>>

\* Halt was called on a halted controller
C5_Witness ==
  \E d \in Devs :
    /\ halt_rec[d].called
    /\ GRUB_XHCI_USBSTS_HCH \in halt_rec[d].usbsts
    /\ halt_rec[d].ret = GRUB_USB_ERR_NONE

\* C6: Reset writes the host-controller-reset bit, and returns success only
\* after it observed that bit and controller-not-ready clear.
C6_ResetSetsHcrst ==
  \A d \in Devs :
    reset_rec[d].called =>
      /\ \E i \in 1..Len(reset_rec[d].writes) :
           /\ reset_rec[d].writes[i].reg = "USBCMD"
           /\ GRUB_XHCI_OPER_USBCMD_HCRST \in reset_rec[d].writes[i].val
      /\ (reset_rec[d].ret = GRUB_USB_ERR_NONE => reset_rec[d].observed)

\* C7: the attach of a controller with port-power control writes the power
\* bit to the status register of every port in 1..max_ports, to no other
\* port register, and sets run/stop after them; the controller is on the
\* list only with run/stop set.
C7_RunPowersEveryPort ==
  \A d \in Devs :
    (attach[d].linked /\ pci[d].ppc) =>
      LET ws == attach[d].writes
          nports == XHCI_HCSPARAMS1_PORTS(pci[d].hcsparams1)
      IN /\ \A p \in 1..nports :
              \E i \in 1..Len(ws) :
                /\ ws[i].reg = "PORTSC" /\ ws[i].port = p
                /\ GRUB_XHCI_PORT_POWER \in ws[i].val
                /\ \E j \in (i + 1)..Len(ws) :
                     /\ ws[j].reg = "USBCMD"
                     /\ GRUB_XHCI_OPER_USBCMD_RUNSTOP \in ws[j].val
         /\ \A i \in 1..Len(ws) :
              ws[i].reg = "PORTSC" => ws[i].port \in 1..nports
         /\ GRUB_XHCI_OPER_USBCMD_RUNSTOP \in pci[d].USBCMD

\* C8: when the controller is BIOS-owned and the firmware does not release
\* it, the attach writes the legacy-support register with OS-owned set and
\* BIOS-owned clear, returns no error and goes on.
C8_TimeoutForcesOwnership ==
  \A d \in Devs :
    (Inited(d) /\ HasLegacy(pci[d]) /\ BIOS_OWNED \in attach[d].legsup0) =>
      /\ \E i \in 1..Len(attach[d].writes) :
           /\ attach[d].writes[i].reg = "USBLEGSUP"
           /\ attach[d].writes[i].val = {OS_OWNED}
      /\ attach[d].init_err = 0
      /\ attach[d].linked

\* C9: on a controller whose extended-capability offset is zero, or whose
\* list has no legacy-support capability, the attach writes no
\* legacy-support register and proceeds without error.
C9_NoLegacyNoWrite ==
  \A d \in Devs :
    (Inited(d) /\ ~HasLegacy(pci[d])) =>
      /\ \A i \in 1..Len(attach[d].writes) :
           attach[d].writes[i].reg \notin {"USBLEGSUP", "USBLEGCTLSTS"}
      /\ attach[d].init_err = 0
      /\ attach[d].linked

\* both kinds of controller without the capability were attached
C9_Witness ==
  /\ \E d \in Devs : attach[d].linked /\ pci[d].xecp = 0
  /\ \E d \in Devs : attach[d].linked /\ pci[d].xecp # 0 /\ ~HasLegacy(pci[d])

\* C10: on a controller with a legacy-support capability the attach writes
\* the SMI control register to disabled, after its last write of the
\* ownership bits.
C10_SmiDisabledAfterOwnership ==
  \A d \in Devs :
    (Inited(d) /\ HasLegacy(pci[d])) =>
      /\ \E i \in 1..Len(attach[d].writes) :
           /\ attach[d].writes[i].reg = "USBLEGCTLSTS"
           /\ attach[d].writes[i].val = {}
           /\ \A j \in (i + 1)..Len(attach[d].writes) :
                attach[d].writes[j].reg # "USBLEGSUP"
      /\ pci[d].USBLEGCTLSTS = {}

\* ------------------------------------------------------- claims on ports
Connected(v) == GRUB_XHCI_PORTSC_CCS \in v
Enabled(v) == GRUB_XHCI_PORTSC_PED \in v
OwnedByOther(v) == GRUB_XHCI_PORT_OWNER \in v
LineK(v) == GRUB_XHCI_PORT_LINE_K \in v /\ GRUB_XHCI_PORT_LINE_J \notin v

\* the last detect call was made on a port in 1..max_ports and read its register
Detected == det_rec.called /\ det_rec.in_range

\* C12: after the restore hook, every registered controller that was running
\* has had run/stop cleared and the halted-status bit observed, then the
\* reset bit set, then run/stop set again, in that order.
C12_RestoreRerunsLifecycle ==
  \A d \in Devs :
    (d \in Registered /\ halt_rec[d].called
       /\ GRUB_XHCI_USBSTS_HCH \notin halt_rec[d].usbsts) =>
      /\ halt_rec[d].observed
      /\ \E i, j, k \in 1..Len(wlog[d]) :
           /\ i < j /\ j < k
           /\ wlog[d][i].reg = "USBCMD"
           /\ GRUB_XHCI_OPER_USBCMD_RUNSTOP \notin wlog[d][i].val
           /\ wlog[d][j].reg = "USBCMD"
           /\ GRUB_XHCI_OPER_USBCMD_HCRST \in wlog[d][j].val
           /\ wlog[d][k].reg = "USBCMD"
           /\ GRUB_XHCI_OPER_USBCMD_RUNSTOP \in wlog[d][k].val

\* C13: once grub_xhci_fini_hw has returned, every registered controller has
\* run/stop clear and the halted-status bit set.
C13_FiniHaltsEveryController ==
  preboot = "fini" =>
    \A d \in Registered :
      /\ GRUB_XHCI_OPER_USBCMD_RUNSTOP \notin pci[d].USBCMD
      /\ GRUB_XHCI_USBSTS_HCH \in pci[d].USBSTS

\* C14: two detect calls on ports in 1..max_ports that read the same port
\* status value report the same speed and the same changed flag, whatever
\* calls were made between them.  (The instance has no reset memory.)
C14_DetectIsFunction ==
  (Detected /\ det_mem.called /\ det_mem.in_range
     /\ det_rec.portsc = det_mem.portsc) =>
    /\ det_rec.speed = det_mem.speed
    /\ det_rec.changed = det_mem.changed

\* two calls read the same value of a port with a device on it
C14_Witness ==
  /\ Detected /\ det_mem.called /\ det_mem.in_range
  /\ det_rec.portsc = det_mem.portsc
  /\ Connected(det_rec.portsc)

\* C15: detect on a port whose current-connect-status bit is clear reports no
\* device and leaves the port status registers unchanged.
C15_NotConnectedNoDevice ==
  (Detected /\ ~Connected(det_rec.portsc)) =>
    /\ det_rec.speed = GRUB_USB_SPEED_NONE
    /\ det_rec.after = det_rec.portsc
    /\ det_rec.others_same

\* C16: detect on a connected, not enabled port reports a device exactly when
\* the port is not owned by a companion controller and its line state is
\* not K.
C16_UnresolvedSpeedOnlyThen ==
  (Detected /\ Connected(det_rec.portsc) /\ ~Enabled(det_rec.portsc)) =>
    (det_rec.speed # GRUB_USB_SPEED_NONE
       <=> (~OwnedByOther(det_rec.portsc) /\ ~LineK(det_rec.portsc)))

C18_OwnedByOtherNoDevice ==
  (Detected /\ Connected(det_rec.portsc) /\ ~Enabled(det_rec.portsc)
     /\ OwnedByOther(det_rec.portsc)) =>
    /\ det_rec.speed = GRUB_USB_SPEED_NONE
    /\ det_rec.writes = <<>>

\* C19: detect on a connected, not enabled, not owned port whose line state
\* is K sets the port-owner bit of that port and of no other, and reports no
\* device.
C19_LowSpeedCedesPort ==
  (Detected /\ Connected(det_rec.portsc) /\ ~Enabled(det_rec.portsc)
     /\ ~OwnedByOther(det_rec.portsc) /\ LineK(det_rec.portsc)) =>
    /\ GRUB_XHCI_PORT_OWNER \in det_rec.after
    /\ det_rec.others_same
    /\ det_rec.speed = GRUB_USB_SPEED_NONE

\* C20: when the port reset sequence returns without a timeout, the reset
\* bit is clear and either the port is enabled and success is returned, or
\* the port is not enabled, its owner bit is set and "bad device" is
\* returned.
C20_ResetTwoOutcomes ==
  (ps_rec.called /\ ps_rec.in_range /\ ps_rec.enable = 1
     /\ ps_rec.ret # GRUB_USB_ERR_TIMEOUT) =>
    /\ GRUB_XHCI_PORT_RESET \notin ps_rec.after
    /\ \/ Enabled(ps_rec.after) /\ ps_rec.ret = GRUB_USB_ERR_NONE
       \/ /\ ~Enabled(ps_rec.after)
          /\ OwnedByOther(ps_rec.after)
          /\ ps_rec.ret = GRUB_USB_ERR_BADDEVICE

\* C21: a port reset whose port-reset bit is still set when the sequence
\* ends returns a timeout, and has written no register but that port's.
C21_ResetTimeoutReported ==
  (ps_rec.called /\ ps_rec.in_range /\ ps_rec.enable = 1
     /\ GRUB_XHCI_PORT_RESET \in ps_rec.after) =>
    /\ ps_rec.ret = GRUB_USB_ERR_TIMEOUT
    /\ \A k \in 1..Len(ps_rec.writes) : ps_rec.writes[k].reg = "PORTSC"

\* C22: a port reset that reports success has written the port status
\* register with the reset bit set and later with the reset bit clear, and
\* has waited at least 50 ms (60 ms when the port came out enabled).
C22_ResetStepsInOrder ==
  (ps_rec.called /\ ps_rec.in_range /\ ps_rec.enable = 1
     /\ ps_rec.ret = GRUB_USB_ERR_NONE) =>
    /\ \E j, k \in 1..Len(ps_rec.writes) :
         /\ j < k
         /\ GRUB_XHCI_PORT_RESET \in ps_rec.writes[j].val
         /\ GRUB_XHCI_PORT_RESET \notin ps_rec.writes[k].val
    /\ ps_rec.slept >= (IF Enabled(ps_rec.after) THEN 60 ELSE 50)

\* ---------------------------------------------------- claims on transfers
\* C25: a start that reports success has written the entries of the
\* transfer and rung the doorbell exactly once.
C25_StartRingsDoorbellOnce ==
  (xf_rec.op = "setup" /\ xf_rec.ret = GRUB_USB_ERR_NONE) =>
    /\ xf_rec.entries >= 1
    /\ xf_rec.doorbells = 1

\* C26: poll of a started transfer that hardware has not completed returns
\* "pending" (GRUB_USB_ERR_WAIT); poll returns success only for a completed
\* transfer, with the requested byte count.
C26_PollPendingUntilComplete ==
  xf_rec.op = "check" =>
    /\ (~xf_rec.completed => xf_rec.ret = GRUB_USB_ERR_WAIT)
    /\ (xf_rec.ret = GRUB_USB_ERR_NONE =>
          xf_rec.completed /\ xf_rec.actual = xf_rec.size)

\* C27: poll on a controller whose halted-status bit is set reads no ring
\* entry and reports neither success nor pending.
C27_PollOnHaltedNotRunning ==
  (xf_rec.op = "check" /\ xf_rec.halted) =>
    /\ xf_rec.entry_reads = 0
    /\ xf_rec.ret \notin {GRUB_USB_ERR_NONE, GRUB_USB_ERR_WAIT}

\* C28: poll tells a short packet from a full success: when fewer bytes were
\* moved than requested and poll reports success, the byte count it gives
\* back is the number of bytes moved.
C28_PollOutcomesDistinct ==
  (xf_rec.op = "check" /\ xf_rec.moved < xf_rec.size
     /\ xf_rec.ret = GRUB_USB_ERR_NONE) =>
    xf_rec.actual = xf_rec.moved

\* C29: a cancel that succeeds on a running controller has unlinked the
\* transfer's entries, then observed the hardware's acknowledgment, then
\* reclaimed the entries, in that order.
C29_CancelWaitsForAck ==
  (xf_rec.op = "cancel" /\ ~xf_rec.halted
     /\ xf_rec.ret = GRUB_USB_ERR_NONE) =>
    \E i, j, k \in 1..Len(xf_rec.steps) :
      /\ i < j /\ j < k
      /\ xf_rec.steps[i] = "unlink"
      /\ xf_rec.steps[j] = "ack"
      /\ xf_rec.steps[k] = "reclaim"

\* ------------------------------------- claims on timeouts and the registry
\* the device is an xHCI controller with a usable register window
Attachable(h) ==
  /\ h.class_code = XHCI_CLASS_CODE
  /\ ~(h.bar_type # "32" /\ h.base_h # 0)
  /\ h.base # 0

C33_FailedAttachLeavesRegistry ==
  /\ [](\A d \in Devs : (attach[d].done /\ ~attach[d].linked) => d \notin Registered)
  /\ [][\A d \in Devs :
          (~attach[d].done /\ attach'[d].done /\ ~attach'[d].linked) =>
            xhci_list' = xhci_list]_vars

\* the attach of device 2 was aborted for a register base above 4 GiB after
\* device 1 had been attached
C33_Witness ==
  /\ attach[1].linked
  /\ attach[2].done /\ attach[2].skipped = "above4G"
  /\ Len(xhci_list) = 1 /\ xhci_list[1].cap_regs = 1

\* C34: when the module is loaded, every xHCI controller with a usable
\* register window is on the list, unless the allocation of its own
\* instance failed.
C34_FailureSkipsOnlyThatController ==
  phase = "loaded" =>
    \A d \in Devs :
      (Attachable(pci[d]) /\ attach[d].skipped # "nomem") => d \in Registered

\* C36: after GRUB_MOD_FINI the controller list is empty.
C36_UnloadEmptiesRegistry ==
  phase = "unloaded" => xhci_list = <<>>

\* C35: on every controller of the list the port count and the slot count
\* hold the values of the capability register, whichever of hub-ports,
\* detect and port status the framework calls first.
C35_CountsSetAtInit ==
  \A i \in 1..Len(xhci_list) :
    /\ xhci_list[i].max_ports = HwPorts(pci[xhci_list[i].cap_regs])
    /\ xhci_list[i].max_device_slots =
         XHCI_HCSPARAMS1_SLOTS(pci[xhci_list[i].cap_regs].hcsparams1)

\* C37: a detect made right after a port reset that finished without a
\* timeout, on that port (the one port with a device on it), which sees it
\* connected and not enabled, reports no device.
C37_ResetMemoryHidesDevice ==
  [][(/\ ps_rec.called /\ ps_rec.in_range /\ ps_rec.enable = 1
      /\ ps_rec.ret # GRUB_USB_ERR_TIMEOUT
      /\ Connected(ps_rec.portsc)
      /\ det_rec' # det_rec
      /\ det_rec'.in_range /\ det_rec'.portsc = ps_rec.portsc
      /\ ~Enabled(det_rec'.portsc))
     => det_rec'.speed = GRUB_USB_SPEED_NONE]_vars

\* C38: a detect call reads a port register exactly when its port number is
\* in 1..max_ports, and gets all-ones otherwise.
C38_ReadOnlyValidPorts ==
  det_rec.called =>
    /\ det_rec.accessed <=> det_rec.port_ok
    /\ ~det_rec.port_ok => det_rec.portsc = ALL_ONES

\* C40: the list holds each attached controller once, the most recently
\* attached first; grub_xhci_iterate calls the hook on the controllers in
\* list order up to and including the first call that returns nonzero, and
\* returns 1 if there was one and 0 otherwise.
C40_IterateInListOrder ==
  /\ { xhci_list[i].cap_regs : i \in 1..Len(xhci_list) }
       = { d \in Devs : attach[d].linked }
  /\ \A i, j \in 1..Len(xhci_list) :
       i < j => xhci_list[i].cap_regs > xhci_list[j].cap_regs
  /\ it_rec.called =>
       LET n == Len(xhci_list)
           stopped == it_rec.stop \in 1..n
           k == IF stopped THEN it_rec.stop ELSE n
       IN /\ it_rec.calls = [j \in 1..k |-> xhci_list[j].cap_regs]
          /\ it_rec.ret = IF stopped THEN 1 ELSE 0

\* the hook stopped the iteration at the first of several controllers
C40_Witness ==
  /\ it_rec.called /\ Len(xhci_list) >= 2
  /\ it_rec.stop = 1 /\ it_rec.ret = 1
  /\ it_rec.calls = <<xhci_list[1].cap_regs>>

\* C32: every operation that is entered returns.
C32_EveryOperationReturns ==
  (call.op # "idle") ~> (call.op = "idle")

\* the restore hook has returned after going through two controllers
C32_Witness ==
  /\ call.op = "idle"
  /\ ret_rec.op = "grub_xhci_restore_hw"
  /\ ret_rec.iters >= 2

====
